---------------------------- MODULE Spec2Model ----------------------------
(***************************************************************************)
(* STORI annual report downloader (main.py, api_client.py).                *)
(*                                                                         *)
(* Spec is a run of main(), or one call of download_for_issuer with any    *)
(* cap and counter; SpecSanitize and SpecIssuers call                      *)
(* sanitize_for_filename and ensure_issuer_file on their own.              *)
(*                                                                         *)
(* Python strings are TLA+ strings; Chars and Join move between a string   *)
(* and its characters.  A JSON value that may be missing is a record       *)
(* [k |-> "absent"], [k |-> "null"], [k |-> "str", s |-> ...] or           *)
(* [k |-> "list", l |-> <<...>>]; `d.get(key) or default` is GetStrOr and  *)
(* GetListOr.  Logging and the mkdir of downloads/ are left out: they      *)
(* neither read nor change anything modelled here.                         *)
(***************************************************************************)
EXTENDS Integers, Sequences, FiniteSets, TLC

\* ------------------------------------------------------------------ bounds
MaxLen == 3          \* longest input string of the sanitize specification
MaxCap == 5          \* caps 0..MaxCap are tried by main (main.py sets 5)
MaxCallCap == 1      \* caps 0..MaxCallCap are tried by a direct call
MaxRaw == 2          \* longest raw issuer array of the issuer specification
MaxCalls == 2        \* ensure_issuer_file calls in the issuer specification

\* ----------------------------------------------------------------- strings
Chars(s) == [i \in 1..Len(s) |-> SubSeq(s, i, i)]

RECURSIVE Join(_)
Join(cs) == IF cs = <<>> THEN "" ELSE Head(cs) \o Join(Tail(cs))

UpperCase == Chars("ABCDEFGHIJKLMNOPQRSTUVWXYZ")
LowerCase == Chars("abcdefghijklmnopqrstuvwxyz")
Digits == Chars("0123456789")
Whitespace == {" ", "\t", "\n"}

Range(f) == {f[i] : i \in DOMAIN f}

LowerChar(c) ==
    IF \E i \in 1..26 : UpperCase[i] = c
    THEN LowerCase[CHOOSE i \in 1..26 : UpperCase[i] = c]
    ELSE c

UpperChar(c) ==
    IF \E i \in 1..26 : LowerCase[i] = c
    THEN UpperCase[CHOOSE i \in 1..26 : LowerCase[i] = c]
    ELSE c

\* str.lower(), str.upper()
Lower(s) == Join([i \in 1..Len(s) |-> LowerChar(SubSeq(s, i, i))])
Upper(s) == Join([i \in 1..Len(s) |-> UpperChar(SubSeq(s, i, i))])

\* str.strip(): leading and trailing whitespace removed
RECURSIVE LStrip(_)
LStrip(cs) ==
    IF cs # <<>> /\ Head(cs) \in Whitespace THEN LStrip(Tail(cs)) ELSE cs

RECURSIVE RStrip(_)
RStrip(cs) ==
    IF cs # <<>> /\ cs[Len(cs)] \in Whitespace
    THEN RStrip(SubSeq(cs, 1, Len(cs) - 1))
    ELSE cs

Strip(s) == Join(RStrip(LStrip(Chars(s))))

\* str.replace(a, b) for one-character a
Replace(s, a, b) ==
    Join([i \in 1..Len(s) |-> IF SubSeq(s, i, i) = a THEN b ELSE SubSeq(s, i, i)])

\* the characters re.sub(r"[^A-Za-z0-9_\-]+", "", text) keeps
FilenameChar(c) ==
    c \in Range(UpperCase) \cup Range(LowerCase) \cup Range(Digits) \cup {"_", "-"}

RECURSIVE KeepChars(_)
KeepChars(cs) ==
    IF cs = <<>> THEN ""
    ELSE (IF FilenameChar(Head(cs)) THEN Head(cs) ELSE "") \o KeepChars(Tail(cs))

\* str.endswith
EndsWith(s, suffix) ==
    /\ Len(s) >= Len(suffix)
    /\ SubSeq(s, Len(s) - Len(suffix) + 1, Len(s)) = suffix

\* str.split(sep)[0]: the text before the first sep, the whole text without one
SplitFirst(s, sep) ==
    IF \E i \in 1..Len(s) : SubSeq(s, i, i) = sep
    THEN LET i == CHOOSE j \in 1..Len(s) :
                    /\ SubSeq(s, j, j) = sep
                    /\ \A m \in 1..(j - 1) : SubSeq(s, m, m) # sep
         IN  SubSeq(s, 1, i - 1)
    ELSE s

\* str.rpartition(sep): <<head, sep, tail>> around the last sep
RPartition(s, sep) ==
    IF \E i \in 1..Len(s) : SubSeq(s, i, i) = sep
    THEN LET i == CHOOSE j \in 1..Len(s) :
                    /\ SubSeq(s, j, j) = sep
                    /\ \A m \in (j + 1)..Len(s) : SubSeq(s, m, m) # sep
         IN  <<SubSeq(s, 1, i - 1), sep, SubSeq(s, i + 1, Len(s))>>
    ELSE <<"", "", s>>

\* str(n) of the f-string, n >= 0
RECURSIVE IntToStr(_)
IntToStr(n) ==
    IF n < 10 THEN Digits[n + 1]
    ELSE IntToStr(n \div 10) \o Digits[(n % 10) + 1]

\* ------------------------------------------------------- naming (main.py)
\* mutant: line 64 returns text, without `or "UNKNOWN"`
sanitize_without_fallback(text) ==
    IF text = "" THEN "UNKNOWN"
    ELSE KeepChars(Chars(Replace(Strip(text), " ", "_")))

sanitize_for_filename(text) ==
    IF text = "" THEN "UNKNOWN"
    ELSE LET t1 == Replace(Strip(text), " ", "_")
             t2 == KeepChars(Chars(t1))
         IN  IF t2 = "" THEN "UNKNOWN" ELSE t2

build_output_filename(company_name, lei, publication_iso) ==
    LET company_part == Upper(sanitize_for_filename(company_name))
        lei_part == sanitize_for_filename(lei)
        date_part == IF publication_iso # ""
                     THEN SplitFirst(publication_iso, "T")
                     ELSE "UNKNOWN_DATE"
    IN  company_part \o "_" \o lei_part \o "_AnnualReport_" \o date_part \o ".pdf"


\* ------------------------------------------------------------ JSON values
Absent == [k |-> "absent"]
Null == [k |-> "null"]
Str(s) == [k |-> "str", s |-> s]
List(l) == [k |-> "list", l |-> l]

\* d.get(key) or default, for a string default
GetStrOr(v, default) == IF v.k = "str" /\ v.s # "" THEN v.s ELSE default

\* d.get(key) or []
GetListOr(v) == IF v.k = "list" THEN v.l ELSE <<>>

\* ----------------------------------------------- issuer list (main.py)
IssuerKeys == <<"companyId", "companyNumber", "localisedName", "abbreviation", "lei">>

default_raw ==
    << [companyId |-> Str("02285e3c-71e9-496a-8d47-d1408131c44b"),
        companyNumber |-> Null,
        localisedName |-> Null,
        abbreviation |-> Str("ACACIA PHARMA GROUP"),
        lei |-> Null] >>

\* json.dumps of a list of dicts: per dict the <<key, token>> pairs of the
\* keys it holds, None written as null and a string in quotes
DumpValue(v) == IF v.k = "null" THEN "null" ELSE "\"" \o v.s \o "\""

DumpObject(d) ==
    LET present == SelectSeq(IssuerKeys, LAMBDA key : d[key].k # "absent")
    IN  [i \in 1..Len(present) |-> <<present[i], DumpValue(d[present[i]])>>]

JsonDumps(raw) == [i \in 1..Len(raw) |-> DumpObject(raw[i])]

\* json.loads: null read as None, a quoted token as its text
LoadValue(tok) ==
    IF tok = "null" THEN Null ELSE Str(SubSeq(tok, 2, Len(tok) - 1))

LoadObject(pairs) ==
    [key \in Range(IssuerKeys) |->
        IF \E i \in 1..Len(pairs) : pairs[i][1] = key
        THEN LoadValue(pairs[CHOOSE i \in 1..Len(pairs) : pairs[i][1] = key][2])
        ELSE Absent]

JsonLoads(text) == [i \in 1..Len(text) |-> LoadObject(text[i])]

NoFile == [exists |-> FALSE, text |-> <<>>]
File(text) == [exists |-> TRUE, text |-> text]

\* mutant: line 95 tests `is None` only, an empty abbreviation is kept
normalize_keeping_empty_name(raw) ==
    IF \E i \in 1..Len(raw) : raw[i].companyId.k = "absent"
    THEN [ok |-> FALSE, issuers |-> <<>>]
    ELSE [ok |-> TRUE,
          issuers |-> [i \in 1..Len(raw) |->
                          [id |-> raw[i].companyId,
                           name |-> IF raw[i].abbreviation.k = "str"
                                    THEN raw[i].abbreviation.s
                                    ELSE "UNKNOWN"]]]

\* issuer["companyId"] raises KeyError on a dict without the key
normalize_issuer_list(raw) ==
    IF \E i \in 1..Len(raw) : raw[i].companyId.k = "absent"
    THEN [ok |-> FALSE, issuers |-> <<>>]
    ELSE [ok |-> TRUE,
          issuers |-> [i \in 1..Len(raw) |->
                          [id |-> raw[i].companyId,
                           name |-> GetStrOr(raw[i].abbreviation, "UNKNOWN")]]]

\* the value returned (or the error raised) and the cache file afterwards
ensure_issuer_file(path) ==
    IF path.exists
    THEN [ret |-> normalize_issuer_list(JsonLoads(path.text)), file |-> path]
    ELSE [ret |-> normalize_issuer_list(default_raw),
          file |-> File(JsonDumps(default_raw))]

\* ------------------------------------------- filter and paths (main.py)
\* mutant: line 197 without .lower()
DocAcceptedNameCaseSensitive(doc) ==
    LET file_type == Lower(GetStrOr(doc.fileType, ""))
        language == Lower(GetStrOr(doc.language, ""))
        original_name == GetStrOr(doc.originalFileName, "")
    IN  IF language \notin {"en", "nl"} THEN FALSE
        ELSE IF file_type # "pdf" /\ ~EndsWith(original_name, ".pdf") THEN FALSE
        ELSE IF GetStrOr(doc.fileDataId, "") = "" THEN FALSE
        ELSE TRUE

\* lines 195-207: the three `continue` tests, in the code's order
DocAccepted(doc) ==
    LET file_type == Lower(GetStrOr(doc.fileType, ""))
        language == Lower(GetStrOr(doc.language, ""))
        original_name == Lower(GetStrOr(doc.originalFileName, ""))
    IN  IF language \notin {"en", "nl"} THEN FALSE
        ELSE IF file_type # "pdf" /\ ~EndsWith(original_name, ".pdf") THEN FALSE
        ELSE IF GetStrOr(doc.fileDataId, "") = "" THEN FALSE
        ELSE TRUE

\* lines 216-218: the while loop over the version counter
RECURSIVE VersionLoop(_, _, _, _)
VersionLoop(stem, ext, counter, existing) ==
    LET candidate == stem \o "_v" \o IntToStr(counter) \o "." \o ext
    IN  IF candidate \in existing
        THEN VersionLoop(stem, ext, counter + 1, existing)
        ELSE candidate

\* mutant: an `if` for the `while` of line 216, _v2 is taken unchecked
ResolvePathWithoutLoop(output_name, existing) ==
    IF output_name \in existing
    THEN LET parts == RPartition(output_name, ".")
         IN  parts[1] \o "_v2." \o parts[3]
    ELSE output_name

\* lines 210-218: the path under downloads/ the document is written to
ResolvePath(output_name, existing) ==
    IF output_name \in existing
    THEN LET parts == RPartition(output_name, ".")
         IN  VersionLoop(parts[1], parts[3], 2, existing)
    ELSE output_name

\* line 149: if already_downloaded >= max_downloads
\* mutant: > for >=
AlreadyAtCapOffByOne(already_downloaded, max_downloads) ==
    already_downloaded > max_downloads

AlreadyAtCap(already_downloaded, max_downloads) ==
    already_downloaded >= max_downloads

\* line 182: if download_count >= MAX, in the loop over the items
ItemLoopBreak(download_count, MAX) == download_count >= MAX

\* line 192: if download_count >= MAX, in the loop over the documents
\* mutant: > for >=
DocLoopBreakOffByOne(download_count, MAX) == download_count > MAX

DocLoopBreak(download_count, MAX) == download_count >= MAX

\* line 262: if total_downloads >= MAX_DOWNLOADS
MainLoopBreak(total, max) == total >= max

\* mutant: the attachments are put before the main documents
ItemDocumentsAttachmentsFirst(item) ==
    GetListOr(item.attachments) \o GetListOr(item.mainDocuments)

\* item.get("mainDocuments") or [] + item.get("attachments") or []
ItemDocuments(item) == GetListOr(item.mainDocuments) \o GetListOr(item.attachments)

\* the bytes the download endpoint serves for a fileDataId
FileBytes(file_data_id) == "bytes-of-" \o file_data_id

\* ------------------------------------------------- inputs of the model
Doc(ft, lang, name, id) ==
    [fileType |-> ft, language |-> lang, originalFileName |-> name, fileDataId |-> id]

DocEn == Doc(Str("pdf"), Str("en"), Str("report.pdf"), Str("f1"))
DocNlByName == Doc(Str("docx"), Str("NL"), Str("r.PDF"), Str("f2"))
DocFr == Doc(Str("pdf"), Str("FR"), Absent, Str("f3"))
DocNoId == Doc(Str("PDF"), Str("en"), Null, Absent)
DocEnUpper == Doc(Str("PDF"), Str("EN"), Null, Str("f4"))

ItemA ==
    [companyName |-> Str("Ab (C)"), lei |-> Str("L1"),
     datePublication |-> Str("2022-04-29T10:00:00Z"),
     mainDocuments |-> List(<<DocEn, DocFr>>),
     attachments |-> List(<<DocNlByName, DocNoId, DocEnUpper>>)]

ItemUnknown ==
    [companyName |-> Absent, lei |-> Null, datePublication |-> Absent,
     mainDocuments |-> Null, attachments |-> List(<<DocEnUpper>>)]

ItemNoDocs ==
    [companyName |-> Str("Ab (C)"), lei |-> Str("L1"), datePublication |-> Str(""),
     mainDocuments |-> Absent, attachments |-> List(<<>>)]

Results(items) == [resultCount |-> Absent, storiResultItems |-> items]

MainBodies ==
    { Results(Absent), Results(Null), Results(List(<<>>)),
      Results(List(<<ItemNoDocs>>)),
      Results(List(<<ItemNoDocs, ItemA>>)),
      Results(List(<<ItemUnknown>>)),
      Results(List(<<ItemA, ItemUnknown>>)) }

\* every one-document response: all combinations of the four fields read
FileTypes == {Absent, Null, Str("pdf"), Str("Pdf"), Str("docx")}
Languages == {Absent, Null, Str(""), Str("en"), Str("eN"), Str("NL"), Str("fr"), Str("eng")}
FileNames == {Absent, Null, Str("r.PDF"), Str("a.pdf"), Str("a.pdfx"), Str("pdf")}
FileIds == {Absent, Null, Str(""), Str("f9")}

OneDocBodies ==
    { Results(List(<< [companyName |-> Str("Ab (C)"), lei |-> Str("L1"),
                       datePublication |-> Str("2022-04-29T10:00:00Z"),
                       mainDocuments |-> List(<<Doc(ft, lang, name, id)>>),
                       attachments |-> Absent] >>)) :
        ft \in FileTypes, lang \in Languages, name \in FileNames, id \in FileIds }

BaseA == "AB_C_L1_AnnualReport_2022-04-29.pdf"

\* what downloads/ holds before the run: file name -> content
PreExisting ==
    { <<>>,
      [n \in {BaseA} |-> "old"],
      [n \in {BaseA, "AB_C_L1_AnnualReport_2022-04-29_v3.pdf"} |-> "old"] }

RawA == [companyId |-> Str("c1"), companyNumber |-> Null, localisedName |-> Null,
         abbreviation |-> Str("ALPHA"), lei |-> Absent]
RawNoName == [companyId |-> Str("c2"), companyNumber |-> Absent, localisedName |-> Absent,
              abbreviation |-> Null, lei |-> Absent]
RawEmptyName == [companyId |-> Str("c3"), companyNumber |-> Absent, localisedName |-> Absent,
                 abbreviation |-> Str(""), lei |-> Absent]
RawAbsentName == [companyId |-> Str("c4"), companyNumber |-> Absent, localisedName |-> Absent,
                  abbreviation |-> Absent, lei |-> Absent]
RawNoId == [companyId |-> Absent, companyNumber |-> Absent, localisedName |-> Absent,
            abbreviation |-> Str("BETA"), lei |-> Absent]
RawNullId == [companyId |-> Null, companyNumber |-> Absent, localisedName |-> Absent,
              abbreviation |-> Str("GAMMA"), lei |-> Absent]

\* issuers.json.txt before a run of main
MainCaches ==
    { NoFile, File(<<>>), File(JsonDumps(<<RawA, RawNoName>>)),
      File(JsonDumps(<<RawA, RawNoId>>)),
      File(JsonDumps(<<RawA, RawNoName, RawNullId>>)) }

\* ------------------------------------------------------------------ state
VARIABLES
    cache,            \* the file issuers.json.txt
    downloads,        \* the files of downloads/: name -> content
    disk0,            \* downloads/ as the run found it
    caller,           \* "main", or "direct" for a call of download_for_issuer
    pc,               \* where the run stands
    issuers,          \* main: the issuer list
    issuer_idx,       \* main: the issuer the for loop is at
    MAX_DOWNLOADS,    \* main: the cap
    total_downloads,  \* main: the counter
    dfi,              \* the locals of download_for_issuer
    log,              \* requests sent and files written, in order
    responses,        \* the search responses received, in order
    fn                \* direct calls of sanitize_for_filename, ensure_issuer_file

vars == <<cache, downloads, disk0, caller, pc, issuers, issuer_idx, MAX_DOWNLOADS,
          total_downloads, dfi, log, responses, fn>>

NoItem == [companyName |-> Absent, lei |-> Absent, datePublication |-> Absent,
           mainDocuments |-> Absent, attachments |-> Absent]

Frame(company_id, max_downloads, already_downloaded) ==
    [company_id |-> company_id,
     max_downloads |-> max_downloads,
     already_downloaded |-> already_downloaded,
     results |-> Results(Absent),
     items |-> <<>>,
     item_idx |-> 0,
     item |-> NoItem,
     company_name |-> "",
     lei |-> "",
     publication_iso |-> "",
     documents |-> <<>>,
     doc_idx |-> 0,
     download_count |-> already_downloaded,
     output_name |-> "",
     output_path |-> "",
     file_data_id |-> "",
     file_bytes |-> "",
     result |-> already_downloaded]

NoFrame == Frame(Null, 0, 0)
NoFn == [input |-> "", out |-> <<>>]

Event(kind, arg, data, ok) == [kind |-> kind, arg |-> arg, data |-> data, ok |-> ok]

InCall == pc \in {"dfi_entry", "dfi_search", "dfi_items", "dfi_docs",
                  "dfi_download", "dfi_write", "dfi_return"}

\* main() up to line 254, before ensure_issuer_file
InitMain ==
    /\ caller = "main"
    /\ pc = "main_load"
    /\ cache \in MainCaches
    /\ downloads \in PreExisting
    /\ disk0 = downloads
    /\ MAX_DOWNLOADS \in 0..MaxCap
    /\ total_downloads = 0
    /\ issuers = <<>>
    /\ issuer_idx = 0
    /\ dfi = NoFrame
    /\ log = <<>>
    /\ responses = <<>>
    /\ fn = NoFn

\* download_for_issuer called with any cap and any counter
InitCall ==
    /\ caller = "direct"
    /\ pc = "dfi_entry"
    /\ cache = NoFile
    /\ downloads \in PreExisting
    /\ disk0 = downloads
    /\ MAX_DOWNLOADS = 0
    /\ total_downloads = 0
    /\ issuers = <<>>
    /\ issuer_idx = 0
    /\ \E max \in 0..MaxCallCap : \E already \in 0..(max + 1) :
           dfi = Frame(Str("c1"), max, already)
    /\ log = <<>>
    /\ responses = <<>>
    /\ fn = NoFn

Init == InitMain \/ InitCall

\* ---------------------------------------------------------------- main()
\* lines 255-259
LoadIssuers ==
    /\ pc = "main_load"
    /\ LET r == ensure_issuer_file(cache)
       IN  /\ cache' = r.file
           /\ issuers' = r.ret.issuers
           /\ pc' = IF ~r.ret.ok THEN "failed"
                    ELSE IF r.ret.issuers = <<>> THEN "done"
                    ELSE "main_loop"
    /\ issuer_idx' = 1
    /\ UNCHANGED <<downloads, disk0, caller, MAX_DOWNLOADS, total_downloads, dfi,
                   log, responses, fn>>

\* lines 261-274: the loop head, the break, and the call
MainLoop ==
    /\ pc = "main_loop"
    /\ IF issuer_idx > Len(issuers) \/ MainLoopBreak(total_downloads, MAX_DOWNLOADS)
       THEN /\ pc' = "done"
            /\ dfi' = dfi
       ELSE /\ pc' = "dfi_entry"
            /\ dfi' = Frame(issuers[issuer_idx].id, MAX_DOWNLOADS, total_downloads)
    /\ UNCHANGED <<cache, downloads, disk0, caller, issuers, issuer_idx, MAX_DOWNLOADS,
                   total_downloads, log, responses, fn>>

\* ------------------------------------------------- download_for_issuer
\* lines 149-150
DfiEntry ==
    /\ pc = "dfi_entry"
    /\ IF AlreadyAtCap(dfi.already_downloaded, dfi.max_downloads)
       THEN /\ pc' = "dfi_return"
            /\ dfi' = [dfi EXCEPT !.result = dfi.already_downloaded]
       ELSE /\ pc' = "dfi_search"
            /\ dfi' = dfi
    /\ UNCHANGED <<cache, downloads, disk0, caller, issuers, issuer_idx, MAX_DOWNLOADS,
                   total_downloads, log, responses, fn>>

SearchBodies == IF caller = "main" THEN MainBodies ELSE MainBodies \cup OneDocBodies

\* mutant: line 165 reads results["storiResultItems"] and iterates it, which
\* raises on a response without the key or with null
SearchRequiringItems ==
    /\ pc = "dfi_search"
    /\ \/ /\ pc' = "failed"
          /\ log' = Append(log, Event("search", dfi.company_id, "", FALSE))
          /\ UNCHANGED <<dfi, responses>>
       \/ \E body \in SearchBodies :
             /\ pc' = IF body.storiResultItems.k = "list" THEN "dfi_items" ELSE "failed"
             /\ log' = Append(log, Event("search", dfi.company_id, "", TRUE))
             /\ responses' = Append(responses, body)
             /\ dfi' = [dfi EXCEPT !.results = body,
                                   !.items = GetListOr(body.storiResultItems),
                                   !.item_idx = 1,
                                   !.download_count = dfi.already_downloaded]
    /\ UNCHANGED <<cache, downloads, disk0, caller, issuers, issuer_idx, MAX_DOWNLOADS,
                   total_downloads, fn>>

\* lines 164-178, api_client.py 56-76: the POST fails, or answers with a body
Search ==
    /\ pc = "dfi_search"
    /\ \/ /\ pc' = "failed"
          /\ log' = Append(log, Event("search", dfi.company_id, "", FALSE))
          /\ UNCHANGED <<dfi, responses>>
       \/ \E body \in SearchBodies :
             /\ pc' = "dfi_items"
             /\ log' = Append(log, Event("search", dfi.company_id, "", TRUE))
             /\ responses' = Append(responses, body)
             /\ dfi' = [dfi EXCEPT !.results = body,
                                   !.items = GetListOr(body.storiResultItems),
                                   !.item_idx = 1,
                                   !.download_count = dfi.already_downloaded]
    /\ UNCHANGED <<cache, downloads, disk0, caller, issuers, issuer_idx, MAX_DOWNLOADS,
                   total_downloads, fn>>

\* lines 181-189, and 234 when the loop ends
ItemStep ==
    /\ pc = "dfi_items"
    /\ IF dfi.item_idx > Len(dfi.items) \/ ItemLoopBreak(dfi.download_count, dfi.max_downloads)
       THEN /\ pc' = "dfi_return"
            /\ dfi' = [dfi EXCEPT !.result = dfi.download_count]
       ELSE LET item == dfi.items[dfi.item_idx]
            IN  /\ pc' = "dfi_docs"
                /\ dfi' = [dfi EXCEPT
                      !.item = item,
                      !.item_idx = dfi.item_idx + 1,
                      !.company_name = GetStrOr(item.companyName, "UNKNOWN_COMPANY"),
                      !.lei = GetStrOr(item.lei, "NO_LEI"),
                      !.publication_iso = GetStrOr(item.datePublication, "UNKNOWN_DATE"),
                      !.documents = ItemDocuments(item),
                      !.doc_idx = 1]
    /\ UNCHANGED <<cache, downloads, disk0, caller, issuers, issuer_idx, MAX_DOWNLOADS,
                   total_downloads, log, responses, fn>>

\* lines 191-225: the loop head, the break, the filter and the path
DocStep ==
    /\ pc = "dfi_docs"
    /\ IF dfi.doc_idx > Len(dfi.documents) \/ DocLoopBreak(dfi.download_count, dfi.max_downloads)
       THEN /\ pc' = "dfi_items"
            /\ dfi' = dfi
       ELSE LET doc == dfi.documents[dfi.doc_idx]
                output_name == build_output_filename(dfi.company_name, dfi.lei,
                                                     dfi.publication_iso)
            IN  IF DocAccepted(doc)
                THEN /\ pc' = "dfi_download"
                     /\ dfi' = [dfi EXCEPT
                           !.file_data_id = doc.fileDataId.s,
                           !.output_name = output_name,
                           !.output_path = ResolvePath(output_name, DOMAIN downloads)]
                ELSE /\ pc' = "dfi_docs"
                     /\ dfi' = [dfi EXCEPT !.doc_idx = dfi.doc_idx + 1]
    /\ UNCHANGED <<cache, downloads, disk0, caller, issuers, issuer_idx, MAX_DOWNLOADS,
                   total_downloads, log, responses, fn>>

\* mutant: the error of download_file is caught and the document skipped
DownloadSkippingFailures ==
    /\ pc = "dfi_download"
    /\ \/ /\ pc' = "dfi_docs"
          /\ log' = Append(log, Event("download", dfi.file_data_id, "", FALSE))
          /\ dfi' = [dfi EXCEPT !.doc_idx = dfi.doc_idx + 1]
       \/ /\ pc' = "dfi_write"
          /\ log' = Append(log, Event("download", dfi.file_data_id, "", TRUE))
          /\ dfi' = [dfi EXCEPT !.file_bytes = FileBytes(dfi.file_data_id)]
    /\ UNCHANGED <<cache, downloads, disk0, caller, issuers, issuer_idx, MAX_DOWNLOADS,
                   total_downloads, responses, fn>>

\* line 227, api_client.py 113-127: the GET fails, or returns the bytes
Download ==
    /\ pc = "dfi_download"
    /\ \/ /\ pc' = "failed"
          /\ log' = Append(log, Event("download", dfi.file_data_id, "", FALSE))
          /\ dfi' = dfi
       \/ /\ pc' = "dfi_write"
          /\ log' = Append(log, Event("download", dfi.file_data_id, "", TRUE))
          /\ dfi' = [dfi EXCEPT !.file_bytes = FileBytes(dfi.file_data_id)]
    /\ UNCHANGED <<cache, downloads, disk0, caller, issuers, issuer_idx, MAX_DOWNLOADS,
                   total_downloads, responses, fn>>

\* Path.write_bytes: the file is created, or its content replaced
WriteBytes(files, path, data) ==
    [n \in (DOMAIN files) \cup {path} |-> IF n = path THEN data ELSE files[n]]

\* lines 228-232
Write ==
    /\ pc = "dfi_write"
    /\ downloads' = WriteBytes(downloads, dfi.output_path, dfi.file_bytes)
    /\ log' = Append(log, Event("write", dfi.output_path, dfi.file_bytes, TRUE))
    /\ dfi' = [dfi EXCEPT !.download_count = dfi.download_count + 1,
                          !.doc_idx = dfi.doc_idx + 1]
    /\ pc' = "dfi_docs"
    /\ UNCHANGED <<cache, disk0, caller, issuers, issuer_idx, MAX_DOWNLOADS,
                   total_downloads, responses, fn>>

\* the return value reaches the caller: main.py 267 assigns it and loops
DfiReturn ==
    /\ pc = "dfi_return"
    /\ IF caller = "main"
       THEN /\ total_downloads' = dfi.result
            /\ issuer_idx' = issuer_idx + 1
            /\ pc' = "main_loop"
       ELSE /\ pc' = "returned"
            /\ UNCHANGED <<total_downloads, issuer_idx>>
    /\ UNCHANGED <<cache, downloads, disk0, caller, issuers, MAX_DOWNLOADS, dfi, log,
                   responses, fn>>

Next ==
    \/ LoadIssuers
    \/ MainLoop
    \/ DfiEntry
    \/ Search
    \/ ItemStep
    \/ DocStep
    \/ Download
    \/ Write
    \/ DfiReturn

Spec == Init /\ [][Next]_vars

\* ------------------------------------- the functions called on their own
\* the part of the state a direct call of a helper never touches
NoRun ==
    /\ downloads = <<>>
    /\ disk0 = <<>>
    /\ caller = "direct"
    /\ issuers = <<>>
    /\ issuer_idx = 0
    /\ MAX_DOWNLOADS = 0
    /\ total_downloads = 0
    /\ dfi = NoFrame
    /\ log = <<>>
    /\ responses = <<>>

SanitizeAlphabet == {"a", "B", "7", "_", "-", " ", "\t", "("}

StringsUpTo(n) == UNION {{Join(t) : t \in [1..k -> SanitizeAlphabet]} : k \in 0..n}

InitSanitize ==
    /\ NoRun
    /\ cache = NoFile
    /\ pc = "sanitize"
    /\ \E x \in StringsUpTo(MaxLen) : fn = [input |-> x, out |-> <<>>]

\* sanitize_for_filename(x)
ApplySanitize ==
    /\ pc = "sanitize"
    /\ fn.out = <<>>
    /\ fn' = [fn EXCEPT !.out = <<sanitize_for_filename(fn.input)>>]
    /\ UNCHANGED <<cache, downloads, disk0, caller, pc, issuers, issuer_idx,
                   MAX_DOWNLOADS, total_downloads, dfi, log, responses>>

\* sanitize_for_filename of the result
ApplySanitizeAgain ==
    /\ pc = "sanitize"
    /\ Len(fn.out) = 1
    /\ fn' = [fn EXCEPT !.out = Append(fn.out, sanitize_for_filename(fn.out[1]))]
    /\ UNCHANGED <<cache, downloads, disk0, caller, pc, issuers, issuer_idx,
                   MAX_DOWNLOADS, total_downloads, dfi, log, responses>>

NextSanitize == ApplySanitize \/ ApplySanitizeAgain

SpecSanitize == InitSanitize /\ [][NextSanitize]_vars

RawRecords == {RawA, RawNoName, RawEmptyName, RawAbsentName, RawNoId, RawNullId}

RawLists == UNION {[1..k -> RawRecords] : k \in 0..MaxRaw}

\* fn.input: whether the cache file exists, and the array it was written from
InitIssuers ==
    /\ NoRun
    /\ pc = "issuers"
    /\ \/ /\ cache = NoFile
          /\ fn = [input |-> [exists |-> FALSE, raw |-> <<>>], out |-> <<>>]
       \/ \E raw \in RawLists :
             /\ cache = File(JsonDumps(raw))
             /\ fn = [input |-> [exists |-> TRUE, raw |-> raw], out |-> <<>>]

\* ensure_issuer_file(session, path), again and again on the same path
CallEnsureIssuerFile ==
    /\ pc = "issuers"
    /\ Len(fn.out) < MaxCalls
    /\ LET r == ensure_issuer_file(cache)
       IN  /\ cache' = r.file
           /\ fn' = [fn EXCEPT !.out = Append(fn.out, r.ret)]
    /\ UNCHANGED <<downloads, disk0, caller, pc, issuers, issuer_idx, MAX_DOWNLOADS,
                   total_downloads, dfi, log, responses>>

NextIssuers == CallEnsureIssuerFile

SpecIssuers == InitIssuers /\ [][NextIssuers]_vars

\* ================================================================= claims
AllowedChars ==
    {"A", "B", "C", "D", "E", "F", "G", "H", "I", "J", "K", "L", "M", "N", "O", "P",
     "Q", "R", "S", "T", "U", "V", "W", "X", "Y", "Z",
     "a", "b", "c", "d", "e", "f", "g", "h", "i", "j", "k", "l", "m", "n", "o", "p",
     "q", "r", "s", "t", "u", "v", "w", "x", "y", "z",
     "0", "1", "2", "3", "4", "5", "6", "7", "8", "9", "_", "-"}

\* x, once its outer whitespace is dropped, holds no allowed character and no
\* space (a space inside would become an underscore)
NothingToKeep(x) ==
    \E lo \in 1..(Len(x) + 1) : \E hi \in 0..Len(x) :
        /\ \A i \in 1..(lo - 1) : SubSeq(x, i, i) \in Whitespace
        /\ \A i \in (hi + 1)..Len(x) : SubSeq(x, i, i) \in Whitespace
        /\ \A i \in lo..hi : SubSeq(x, i, i) \notin AllowedChars \cup {" "}

\* C7: sanitize_for_filename is idempotent; its result is never empty and holds
\* only characters of [A-Za-z0-9_-]; an empty string, or one with nothing left
\* after trimming and replacing spaces, gives "UNKNOWN".
C7_SanitizeIdempotent ==
    pc = "sanitize" =>
        /\ Len(fn.out) >= 1 =>
              /\ fn.out[1] # ""
              /\ \A i \in 1..Len(fn.out[1]) : SubSeq(fn.out[1], i, i) \in AllowedChars
              /\ NothingToKeep(fn.input) => fn.out[1] = "UNKNOWN"
        /\ Len(fn.out) = 2 => fn.out[2] = fn.out[1]

C7_Witness ==
    /\ pc = "sanitize"
    /\ Len(fn.out) = 2
    /\ fn.input # ""
    /\ NothingToKeep(fn.input)
    /\ fn.out[2] = "UNKNOWN"

DefaultIssuers ==
    << [id |-> Str("02285e3c-71e9-496a-8d47-d1408131c44b"),
        name |-> "ACACIA PHARMA GROUP"] >>

DefaultFileText ==
    << << <<"companyId", "\"02285e3c-71e9-496a-8d47-d1408131c44b\"">>,
          <<"companyNumber", "null">>,
          <<"localisedName", "null">>,
          <<"abbreviation", "\"ACACIA PHARMA GROUP\"">>,
          <<"lei", "null">> >> >>

\* C9: on a missing cache file ensure_issuer_file writes the default record,
\* returns the one default issuer and sends no request, and every later call
\* returns the same; on an existing file it returns, in the array's order,
\* id = companyId and name = abbreviation when present and non-empty, else
\* "UNKNOWN".
C9_IssuerCache ==
    pc = "issuers" =>
        /\ log = <<>>
        /\ (~fn.input.exists /\ fn.out # <<>>) => cache = File(DefaultFileText)
        /\ \A j \in 1..Len(fn.out) :
              IF ~fn.input.exists
              THEN fn.out[j] = [ok |-> TRUE, issuers |-> DefaultIssuers]
              ELSE LET raw == fn.input.raw
                       got == fn.out[j]
                   IN  /\ got.ok <=> \A i \in 1..Len(raw) : raw[i].companyId.k # "absent"
                       /\ got.ok =>
                            /\ Len(got.issuers) = Len(raw)
                            /\ \A i \in 1..Len(raw) :
                                  /\ got.issuers[i].id = raw[i].companyId
                                  /\ got.issuers[i].name =
                                       IF raw[i].abbreviation \in {Absent, Null, Str("")}
                                       THEN "UNKNOWN"
                                       ELSE raw[i].abbreviation.s

C9_Witness ==
    /\ pc = "issuers"
    /\ ~fn.input.exists
    /\ Len(fn.out) = 2
    /\ fn.out[2].issuers[1].name = "ACACIA PHARMA GROUP"

\* ------------------------------------------------ the run, as observed
OfKind(l, kind) == SelectSeq(l, LAMBDA e : e.kind = kind)
NumOfKind(l, kind) == Len(OfKind(l, kind))

\* the cap of the run and the count it started from
Cap == IF caller = "main" THEN MAX_DOWNLOADS ELSE dfi.max_downloads
Start == IF caller = "main" THEN 0 ELSE dfi.already_downloaded

\* the download counter: main's between calls, the callee's within one
Counter ==
    IF caller = "main" /\ pc \in {"main_load", "main_loop", "done"}
    THEN total_downloads
    ELSE dfi.download_count

CounterNext ==
    IF caller' = "main" /\ pc' \in {"main_load", "main_loop", "done"}
    THEN total_downloads'
    ELSE dfi'.download_count

Max(a, b) == IF a >= b THEN a ELSE b
Min(a, b) == IF a <= b THEN a ELSE b

\* C1: the counter, the download requests and the files written never exceed
\* the cap; the counter starts at the count the run began with (0 in main),
\* never decreases and grows by exactly 1 with each file written.
C1_CapNeverExceeded ==
    /\ [](/\ Counter = Start + NumOfKind(log, "write")
          /\ Counter <= Max(Cap, Start)
          /\ NumOfKind(log, "download") <= Max(Cap - Start, 0)
          /\ NumOfKind(log, "write") <= Max(Cap - Start, 0)
          /\ caller = "main" => Counter <= MAX_DOWNLOADS)
    /\ [][/\ CounterNext \in {Counter, Counter + 1}
          /\ (CounterNext = Counter + 1) <=>
                 (NumOfKind(log', "write") = NumOfKind(log, "write") + 1)
          /\ (CounterNext = Counter) <=> (OfKind(log', "write") = OfKind(log, "write"))]_vars

C1_Witness ==
    /\ caller = "main"
    /\ pc = "dfi_docs"
    /\ MAX_DOWNLOADS = 5
    /\ dfi.download_count = 5
    /\ NumOfKind(log, "write") = 5
    /\ dfi.doc_idx <= Len(dfi.documents)

\* C2: once the counter has reached the cap no search request is issued again
\* in the run, and download_for_issuer called with already_downloaded at or
\* above max_downloads returns already_downloaded with no request sent and no
\* file touched.
C2_NoSearchAtCap ==
    /\ [][Counter >= Cap =>
             OfKind(log', "search") = OfKind(log, "search")]_vars
    /\ []((caller = "direct" /\ dfi.already_downloaded >= dfi.max_downloads) =>
            /\ pc \in {"dfi_entry", "dfi_return", "returned"}
            /\ log = <<>>
            /\ downloads = disk0
            /\ pc \in {"dfi_return", "returned"} => dfi.result = dfi.already_downloaded)

C2_Witness ==
    /\ caller = "main"
    /\ pc = "done"
    /\ MAX_DOWNLOADS > 0
    /\ total_downloads = MAX_DOWNLOADS
    /\ issuer_idx <= Len(issuers)
    /\ NumOfKind(log, "search") = issuer_idx - 1

\* the field of a document as the claim reads it: absent and null are empty
Field(v) == IF v \in {Absent, Null} THEN "" ELSE v.s

PdfSpellings == {"pdf", "pdF", "pDf", "pDF", "Pdf", "PdF", "PDf", "PDF"}

\* the acceptance rule as the specification words it
RuleAccepts(doc) ==
    /\ Field(doc.language) \in {"en", "eN", "En", "EN", "nl", "nL", "Nl", "NL"}
    /\ \/ Field(doc.fileType) \in PdfSpellings
       \/ \E ext \in PdfSpellings : EndsWith(Field(doc.originalFileName), "." \o ext)
    /\ Field(doc.fileDataId) # ""

ExaminingDoc ==
    /\ pc = "dfi_docs"
    /\ dfi.doc_idx <= Len(dfi.documents)
    /\ dfi.download_count < dfi.max_downloads

\* C3: a document reached below the cap is downloaded iff its language is en
\* or nl, it is a pdf by type or by name (all case-insensitive) and it has a
\* fileDataId; a rejected document changes nothing and raises nothing.
C3_FilterRule ==
    /\ [][ExaminingDoc =>
             LET doc == dfi.documents[dfi.doc_idx]
             IN  IF RuleAccepts(doc)
                 THEN /\ pc' = "dfi_download"
                      /\ dfi'.file_data_id = doc.fileDataId.s
                 ELSE /\ pc' = "dfi_docs"
                      /\ dfi'.doc_idx = dfi.doc_idx + 1
                      /\ dfi'.download_count = dfi.download_count
                      /\ log' = log
                      /\ downloads' = downloads]_vars
    /\ [][pc = "dfi_download" =>
             /\ Len(log') = Len(log) + 1
             /\ log'[Len(log')].kind = "download"
             /\ log'[Len(log')].arg = dfi.file_data_id]_vars
    /\ [][NumOfKind(log', "download") # NumOfKind(log, "download") =>
             pc = "dfi_download"]_vars

C3_Witness ==
    /\ pc = "dfi_write"
    /\ dfi.documents[dfi.doc_idx] = Doc(Str("docx"), Str("eN"), Str("r.PDF"), Str("f9"))
    /\ log[Len(log)] = Event("download", "f9", "", TRUE)

\* {stem}_v{k}.pdf for a name {stem}.pdf
Versioned(name, k) ==
    SubSeq(name, 1, Len(name) - 4) \o "_v" \o IntToStr(k) \o ".pdf"

\* C4: the path resolved for an accepted document names no existing file: the
\* base name when it is free, else {stem}_v{k}.pdf for the smallest k >= 2 that
\* is free; no file that exists is ever overwritten.
C4_NoOverwrite ==
    /\ [](pc \in {"dfi_download", "dfi_write"} =>
            /\ dfi.output_path \notin DOMAIN downloads
            /\ EndsWith(dfi.output_name, ".pdf")
            /\ IF dfi.output_name \notin DOMAIN downloads
               THEN dfi.output_path = dfi.output_name
               ELSE \E k \in 2..(Cardinality(DOMAIN downloads) + 2) :
                       /\ dfi.output_path = Versioned(dfi.output_name, k)
                       /\ \A j \in 2..(k - 1) :
                             Versioned(dfi.output_name, j) \in DOMAIN downloads)
    /\ [][\A n \in DOMAIN downloads :
             n \in DOMAIN downloads' /\ downloads'[n] = downloads[n]]_vars

C4_Witness ==
    /\ pc = "dfi_write"
    /\ dfi.output_path = "AB_C_L1_AnnualReport_2022-04-29_v4.pdf"
    /\ disk0 # <<>>
    /\ downloads["AB_C_L1_AnnualReport_2022-04-29_v2.pdf"] = "bytes-of-f1"

\* the DATE of the file name as the specification words it
RuleDate(v) == IF Field(v) = "" THEN "UNKNOWN_DATE" ELSE SplitFirst(v.s, "T")

\* C5: an accepted document is written as {COMPANY}_{LEI}_AnnualReport_{DATE}.pdf
\* with DATE the text of datePublication before its first "T", and
\* "UNKNOWN_DATE" when datePublication is absent, null or empty.
C5_FileNameDate ==
    pc = "dfi_download" =>
        EndsWith(dfi.output_name,
                 "_AnnualReport_" \o RuleDate(dfi.item.datePublication) \o ".pdf")

\* C6: a failed search or download request ends the run: it is the last thing
\* the run does, no file is written and the counter is not raised for the
\* document, and the files written before stay as they were written.
C6_FailureEndsRun ==
    /\ [](\A i \in 1..Len(log) :
             ~log[i].ok => (i = Len(log) /\ pc = "failed"))
    /\ []((pc = "failed" /\ log # <<>>) =>
            /\ ~log[Len(log)].ok
            /\ log[Len(log)].kind \in {"search", "download"}
            /\ Counter = Start + NumOfKind(log, "write")
            /\ log[Len(log)].kind = "download" => dfi.output_path \notin DOMAIN downloads
            /\ DOMAIN downloads = DOMAIN disk0 \cup {e.arg : e \in Range(OfKind(log, "write"))}
            /\ \A n \in DOMAIN disk0 : downloads[n] = disk0[n]
            /\ \A e \in Range(OfKind(log, "write")) : downloads[e.arg] = e.data)
    /\ [][pc # "failed"]_vars

C6_Witness ==
    /\ pc = "failed"
    /\ caller = "main"
    /\ log # <<>>
    /\ log[Len(log)] = Event("download", "f4", "", FALSE)
    /\ NumOfKind(log, "write") = 2
    /\ NumOfKind(log, "search") = 1
    /\ Len(issuers) = 2

NoDocuments(item) ==
    /\ item.mainDocuments \in {Absent, Null, List(<<>>)}
    /\ item.attachments \in {Absent, Null, List(<<>>)}

\* a response with no filing items, or whose filing items hold no document
EmptyResults(results) ==
    \/ results.storiResultItems \in {Absent, Null, List(<<>>)}
    \/ /\ results.storiResultItems.k = "list"
       /\ \A i \in 1..Len(results.storiResultItems.l) :
             NoDocuments(results.storiResultItems.l[i])

AfterSearch == pc \in {"dfi_items", "dfi_docs", "dfi_download", "dfi_write", "dfi_return"}

\* the last thing the run did was to receive a response without documents
EmptyResponseReceived ==
    /\ log # <<>>
    /\ log[Len(log)].kind = "search"
    /\ log[Len(log)].ok
    /\ EmptyResults(responses[Len(responses)])

\* C8: on a response without filing items, or whose items hold no documents,
\* download_for_issuer raises nothing, sends no download request, writes no
\* file and returns the counter it was given; main goes on to the next issuer.
C8_EmptyResponse ==
    /\ [](EmptyResponseReceived =>
            /\ pc \notin {"failed", "dfi_download", "dfi_write"}
            /\ AfterSearch =>
                  /\ dfi.download_count = dfi.already_downloaded
                  /\ pc = "dfi_return" => dfi.result = dfi.already_downloaded)
    /\ [][EmptyResponseReceived =>
             /\ downloads' = downloads
             /\ log' = log \/ (pc = "dfi_search" /\ NumOfKind(log', "search") = NumOfKind(log, "search") + 1)
             /\ (pc = "dfi_return" /\ caller = "main") =>
                   /\ pc' = "main_loop"
                   /\ total_downloads' = total_downloads
                   /\ issuer_idx' = issuer_idx + 1]_vars

C8_Witness ==
    /\ caller = "main"
    /\ pc = "dfi_items"
    /\ Len(responses) = 2
    /\ responses[1].storiResultItems = Null
    /\ issuer_idx = 2
    /\ NumOfKind(log, "download") = 0

RECURSIVE Concat(_)
Concat(seqs) == IF seqs = <<>> THEN <<>> ELSE Head(seqs) \o Concat(Tail(seqs))

ListOf(v) == IF v \in {Absent, Null} THEN <<>> ELSE v.l

\* the documents of the responses in the global order: responses as received,
\* items as listed, main documents then attachments
GlobalOrder(resps) ==
    Concat([r \in 1..Len(resps) |->
        LET items == ListOf(resps[r].storiResultItems)
        IN  Concat([i \in 1..Len(items) |->
                ListOf(items[i].mainDocuments) \o ListOf(items[i].attachments)])])

AcceptedIds(resps) ==
    LET docs == SelectSeq(GlobalOrder(resps), RuleAccepts)
    IN  [i \in 1..Len(docs) |-> docs[i].fileDataId.s]

RequestedIds ==
    LET reqs == OfKind(log, "download")
    IN  [i \in 1..Len(reqs) |-> reqs[i].arg]

IsPrefix(a, b) == Len(a) <= Len(b) /\ SubSeq(b, 1, Len(a)) = a

\* C10: download requests follow the global document order and none of the
\* accepted documents before the cut-off is skipped; a run that ends without
\* a failure has requested exactly the first min(N, A) accepted documents,
\* having searched every issuer unless the cap was reached; the bytes of a
\* document are written before anything else is requested.
C10_DownloadOrder ==
    /\ IsPrefix(RequestedIds, AcceptedIds(responses))
    /\ caller = "main" =>
          LET searches == OfKind(log, "search")
          IN  /\ Len(searches) <= Len(issuers)
              /\ \A i \in 1..Len(searches) : searches[i].arg = issuers[i].id
    /\ \A i \in 1..Len(log) :
          /\ (log[i].kind = "download" /\ log[i].ok) =>
                IF i = Len(log) THEN pc = "dfi_write"
                ELSE /\ log[i + 1].kind = "write"
                     /\ log[i + 1].data = FileBytes(log[i].arg)
          /\ log[i].kind = "write" =>
                /\ i > 1
                /\ log[i - 1].kind = "download"
                /\ log[i - 1].ok
    /\ pc \in {"done", "returned"} =>
          /\ Len(RequestedIds) = Min(Max(Cap - Start, 0), Len(AcceptedIds(responses)))
          /\ NumOfKind(log, "write") = Len(RequestedIds)
          /\ Counter < Cap =>
                Len(responses) = (IF caller = "main" THEN Len(issuers) ELSE 1)

C10_Witness ==
    /\ caller = "main"
    /\ pc = "done"
    /\ MAX_DOWNLOADS = 5
    /\ RequestedIds = <<"f1", "f2", "f4", "f4", "f1">>
    /\ Len(AcceptedIds(responses)) = 7

=============================================================================
